---- MODULE Spec2Model ----
(***************************************************************************)
(* Model of portainer/__init__.py: main() and get_portainer_token().       *)
(* One run of the command line tool: resolve the credential file, load     *)
(* the profile, log in, write the docker configuration into a temporary    *)
(* directory, run docker and exit with its return code.                    *)
(***************************************************************************)
EXTENDS Integers, Sequences, FiniteSets, TLC

\* ------------------------------------------------------------------ bounds
MaxArgs == 2          \* longest list of passthrough arguments
MaxSignal == 1        \* largest signal number that kills the child
MaxExit == 1          \* largest small exit code of the child (255 is always included)

\* ------------------------------------------------------- python's None
None == "<None>"

\* str(v) as used by an f-string
PyStr(v) == IF v = None THEN "None" ELSE v

\* ------------------------------------------------------- the environment
Cwd == "/work"
Home == "/home/user"
CwdPath == Cwd \o "/portainer-credentials.yaml"
HomePath == Home \o "/.portainer-credentials.yaml"
EtcPath == "/etc/portainer-credentials.yaml"
OverridePath == "custom.yaml"
DefaultPaths == <<CwdPath, HomePath, EtcPath>>
\* the paths a run with options o may look at
PathsOf(o) ==
  {CwdPath, HomePath, EtcPath} \cup (IF o.credentials # None THEN {o.credentials} ELSE {})
Kinds == {"absent", "file", "dir"}

ArgWords == {"ps", "--tlsverify"}
ArgLists == UNION {[1..n -> ArgWords] : n \in 0..MaxArgs}
DockerCmds == {"docker", "podman"}
NameFlags == {None, "prod"}
NameEnvs == {None, "stage"}
ProfileNames == {"default", "prod", "stage"}
TmpDirs == {"/tmp/portainer-a"}
Pem == "-----BEGIN CERTIFICATE-----"

\* credential records as yaml.load returns them (dicts)
RecFull == [host |-> "h1", username |-> "u", password |-> "p", endpoint_id |-> "7", ca_certificate |-> Pem]
RecMin == [host |-> "h2", username |-> "u", password |-> "p"]
RecNulls == [host |-> "h1", username |-> "u", password |-> "p", endpoint_id |-> None, ca_certificate |-> None]
RecEmptyCert == [host |-> "h2", username |-> "u", password |-> "p", ca_certificate |-> ""]
RecNoHost == [username |-> "u", password |-> "p"]
RecNoUser == [host |-> "h1", password |-> "p"]
RecNoPass == [host |-> "h1", username |-> "u", endpoint_id |-> "7"]
Records == {RecFull, RecMin, RecNulls, RecEmptyCert, RecNoHost, RecNoUser, RecNoPass}
StoreDomains == {{}, {"default"}, {"default", "prod", "stage"}}
Stores == {[n \in S |-> r] : S \in StoreDomains, r \in Records}

\* HTTP responses of POST /api/auth
NoResponse == [ok |-> FALSE, status_code |-> "0", text |-> <<>>, is_json |-> FALSE, json |-> <<>>]
Responses ==
  { [ok |-> FALSE, status_code |-> "401", text |-> <<"Unauthorized">>, is_json |-> FALSE, json |-> <<>>],
    [ok |-> FALSE, status_code |-> "500", text |-> <<"{", "}">>, is_json |-> TRUE, json |-> [jwt |-> "T1"]],
    [ok |-> TRUE, status_code |-> "200", text |-> <<"<html>">>, is_json |-> FALSE, json |-> <<>>],
    [ok |-> TRUE, status_code |-> "200", text |-> <<"{}">>, is_json |-> TRUE, json |-> <<>>],
    [ok |-> TRUE, status_code |-> "200", text |-> <<"{..}">>, is_json |-> TRUE, json |-> [jwt |-> None]],
    [ok |-> TRUE, status_code |-> "200", text |-> <<"{..}">>, is_json |-> TRUE, json |-> [jwt |-> "T1"]],
    [ok |-> TRUE, status_code |-> "200", text |-> <<"{..}">>, is_json |-> TRUE, json |-> [jwt |-> "abc123"]] }

ReturnCodes == ((0 - MaxSignal) .. MaxExit) \cup {255}
NoExit == 0 - 1

\* dict.get(key, default)
Get(d, k, default) == IF k \in DOMAIN d THEN d[k] ELSE default

VARIABLES
  opts, environ, fs,
  pc,
  credential_files, valid_credential_files, credentials_file,
  all_credentials, credentials_name, credentials,
  portainer_host, portainer_username, portainer_password,
  portainer_endpoint_id, portainer_ca_certificate,
  response, token,
  tmpdir, tmpfs, docker_args,
  child, returncode, exc, log, exitCode,
  loginCount, mkdtempCount, spawnCount

vars == <<opts, environ, fs, pc, credential_files, valid_credential_files,
          credentials_file, all_credentials, credentials_name, credentials,
          portainer_host, portainer_username, portainer_password,
          portainer_endpoint_id, portainer_ca_certificate, response, token,
          tmpdir, tmpfs, docker_args, child, returncode, exc, log, exitCode,
          loginCount, mkdtempCount, spawnCount>>

inputVars == <<opts, environ, fs>>
fileVars == <<credential_files, valid_credential_files, credentials_file>>
credVars == <<all_credentials, credentials_name, credentials>>
fieldVars == <<portainer_host, portainer_username, portainer_password,
               portainer_endpoint_id, portainer_ca_certificate>>
authVars == <<response, token, loginCount>>
tmpVars == <<tmpdir, tmpfs, mkdtempCount>>
childVars == <<child, returncode, spawnCount>>

Init ==
  /\ opts \in [credentials : {None, OverridePath}, credentials_name : NameFlags,
               docker_cmd : DockerCmds, argument : ArgLists]
  /\ environ \in NameEnvs
  /\ fs \in [PathsOf(opts) -> Kinds]
  /\ pc = "start"
  /\ credential_files = <<>> /\ valid_credential_files = <<>> /\ credentials_file = None
  /\ all_credentials = <<>> /\ credentials_name = None /\ credentials = <<>>
  /\ portainer_host = None /\ portainer_username = None /\ portainer_password = None
  /\ portainer_endpoint_id = None /\ portainer_ca_certificate = None
  /\ response = NoResponse /\ token = None
  /\ tmpdir = None /\ tmpfs = <<>> /\ docker_args = <<>>
  /\ child = "none" /\ returncode = 0 /\ exc = None /\ log = <<>> /\ exitCode = NoExit
  /\ loginCount = 0 /\ mkdtempCount = 0 /\ spawnCount = 0

\* os.path.isfile
IsFile(path) == fs[path] = "file"

\* [path for path in files if os.path.isfile(path)]
RECURSIVE ValidFiles(_)
ValidFiles(files) ==
  IF files = <<>> THEN <<>>
  ELSE (IF IsFile(Head(files)) THEN <<Head(files)>> ELSE <<>>) \o ValidFiles(Tail(files))

\* variant: the override is put in front of the default search path
CredentialFiles_OverrideFirst(o) ==
  (IF o.credentials # None THEN <<o.credentials>> ELSE <<>>) \o DefaultPaths

\* lines 72-79
CredentialFiles(o) ==
  IF o.credentials # None THEN <<o.credentials>> ELSE DefaultPaths

\* variant: only the first attempted path is logged
NotFoundLog_FirstOnly(files) ==
  <<"ERROR Could not find credentials file. Tried:", "ERROR   - " \o files[1]>>

\* the LOG.error calls of lines 83-85
NotFoundLog(files) ==
  <<"ERROR Could not find credentials file. Tried:">>
    \o [i \in 1..Len(files) |-> "ERROR   - " \o files[i]]

\* sys.exit(n) at a point where no temporary directory is held
SysExit(n) ==
  /\ pc' = "exited"
  /\ exitCode' = n % 256

\* an exception nobody catches: traceback, exit status 1
Uncaught(e) ==
  /\ exc' = e
  /\ SysExit(1)

\* lines 70-86
ResolveCredentialFiles ==
  /\ pc = "start"
  /\ credential_files' = CredentialFiles(opts)
  /\ valid_credential_files' = ValidFiles(credential_files')
  /\ IF Len(valid_credential_files') = 0
       THEN /\ log' = log \o NotFoundLog(credential_files')
            /\ SysExit(1)
       ELSE /\ pc' = "load"
            /\ UNCHANGED <<log, exitCode>>
  /\ UNCHANGED <<inputVars, credentials_file, credVars, fieldVars, authVars,
                 tmpVars, docker_args, childVars, exc>>

\* variant: the environment variable wins over the flag
CredentialsName_EnvFirst(o, env) ==
  IF env # None THEN env
  ELSE IF o.credentials_name # None THEN o.credentials_name ELSE "default"

\* lines 92-94
CredentialsName(o, env) ==
  IF o.credentials_name # None THEN o.credentials_name
  ELSE IF env # None THEN env ELSE "default"

\* lines 88-98
LoadCredentials ==
  /\ pc = "load"
  /\ credentials_file' = valid_credential_files[1]
  /\ \/ \* open() or yaml.load() raises
        /\ Uncaught("OSError: open credentials")
        /\ UNCHANGED <<credVars, log>>
     \/ \* an empty file: yaml.load returns None, None.get raises
        /\ credentials_name' = CredentialsName(opts, environ)
        /\ Uncaught("AttributeError: all_credentials.get")
        /\ UNCHANGED <<all_credentials, credentials, log>>
     \/ \E store \in Stores :
          /\ all_credentials' = store
          /\ credentials_name' = CredentialsName(opts, environ)
          /\ IF credentials_name' \in DOMAIN store
               THEN /\ credentials' = store[credentials_name']
                    /\ pc' = "extract"
                    /\ UNCHANGED <<log, exitCode, exc>>
               ELSE /\ credentials' = <<>>
                    /\ log' = Append(log, "ERROR Credentials \"" \o credentials_name'
                                           \o "\" not found in \"" \o credentials_file' \o "\"")
                    /\ SysExit(1)
                    /\ UNCHANGED exc
  /\ UNCHANGED <<inputVars, credential_files, valid_credential_files, fieldVars,
                 authVars, tmpVars, docker_args, childVars>>

RequiredFields == {"host", "username", "password"}

\* variant: the required fields are read with .get()
ExtractCredentials_Lenient ==
  /\ pc = "extract"
  /\ portainer_host' = Get(credentials, "host", None)
  /\ portainer_username' = Get(credentials, "username", None)
  /\ portainer_password' = Get(credentials, "password", None)
  /\ portainer_endpoint_id' = Get(credentials, "endpoint_id", "1")
  /\ portainer_ca_certificate' = Get(credentials, "ca_certificate", None)
  /\ pc' = "login"
  /\ UNCHANGED <<inputVars, fileVars, credVars, authVars, tmpVars, docker_args,
                 childVars, log, exc, exitCode>>

\* lines 100-105
ExtractCredentials ==
  /\ pc = "extract"
  /\ IF RequiredFields \subseteq DOMAIN credentials
       THEN /\ portainer_host' = credentials["host"]
            /\ portainer_username' = credentials["username"]
            /\ portainer_password' = credentials["password"]
            /\ portainer_endpoint_id' = Get(credentials, "endpoint_id", "1")
            /\ portainer_ca_certificate' = Get(credentials, "ca_certificate", None)
            /\ pc' = "login"
            /\ UNCHANGED <<exc, exitCode>>
       ELSE /\ Uncaught("KeyError")
            /\ UNCHANGED fieldVars
  /\ UNCHANGED <<inputVars, fileVars, credVars, authVars, tmpVars, docker_args,
                 childVars, log>>

\* variant: the status of the response is not looked at
GetPortainerToken_NoOkCheck(r) == Get(r.json, "jwt", None)

\* lines 154-160: the value get_portainer_token returns for response r
GetPortainerToken(r) ==
  IF ~r.ok THEN None ELSE Get(r.json, "jwt", None)

\* lines 154-157: what get_portainer_token logs for response r
TokenLog(r) ==
  IF ~r.ok
    THEN <<"ERROR Error " \o r.status_code \o " from portainer. Response:">>
           \o [i \in 1..Len(r.text) |-> "ERROR     " \o r.text[i]]
    ELSE <<>>

\* lines 107-112 with the call of get_portainer_token (lines 148-160)
Login ==
  /\ pc = "login"
  /\ loginCount' = loginCount + 1
  /\ \/ \* requests.post raises (no connection)
        /\ Uncaught("ConnectionError")
        /\ UNCHANGED <<response, token, log>>
     \/ \E r \in Responses :
          /\ response' = r
          /\ IF r.ok /\ ~r.is_json
               THEN \* r.json() raises
                    /\ Uncaught("ValueError: r.json")
                    /\ UNCHANGED <<token, log>>
               ELSE /\ token' = GetPortainerToken(r)
                    /\ IF token' = None
                         THEN /\ log' = log \o TokenLog(r)
                                          \o <<"ERROR Could not retrieve auth token">>
                              /\ SysExit(1)
                         ELSE /\ log' = log \o TokenLog(r)
                              /\ pc' = "mktemp"
                              /\ UNCHANGED exitCode
                    /\ UNCHANGED exc
  /\ UNCHANGED <<inputVars, fileVars, credVars, fieldVars, tmpVars, docker_args,
                 childVars>>

\* ------------------------------------------- the temporary directory
Dir == "<directory>"

\* os.path.join(a, b)
Join(a, b) == a \o "/" \o b

ConfigDir(d) == Join(d, "config")
ConfigJson(d) == Join(ConfigDir(d), "config.json")
CacertPath(d) == Join(d, "cacert.pem")

\* the paths this program creates below temporary directory d
Under(d) == {d, ConfigDir(d), ConfigJson(d), CacertPath(d)}

\* file system f with path p holding content c
WriteFile(f, p, c) == [q \in DOMAIN f \cup {p} |-> IF q = p THEN c ELSE f[q]]

\* shutil.rmtree(d), as TemporaryDirectory.cleanup() calls it
Rmtree(f, d) == [q \in DOMAIN f \ Under(d) |-> f[q]]

\* json.dumps({'HttpHeaders': {'Authorization': f'Bearer {token}'}})
ConfigText(t) ==
  "{\"HttpHeaders\": {\"Authorization\": \"Bearer " \o PyStr(t) \o "\"}}"

\* line 115: entering the with block
EnterTmpdir ==
  /\ pc = "mktemp"
  /\ \/ \* mkdtemp raises: nothing was created
        /\ Uncaught("OSError: mkdtemp")
        /\ UNCHANGED tmpVars
     \/ \E d \in TmpDirs :
          /\ tmpdir' = d
          /\ tmpfs' = WriteFile(tmpfs, d, Dir)
          /\ mkdtempCount' = mkdtempCount + 1
          /\ pc' = "config"
          /\ UNCHANGED <<exc, exitCode>>
  /\ UNCHANGED <<inputVars, fileVars, credVars, fieldVars, authVars, docker_args,
                 childVars, log>>

\* lines 116-120
WriteConfig ==
  /\ pc = "config"
  /\ \/ /\ tmpfs' = WriteFile(WriteFile(tmpfs, ConfigDir(tmpdir), Dir),
                              ConfigJson(tmpdir), ConfigText(token))
        /\ pc' = "args"
        /\ UNCHANGED exc
     \/ \* os.makedirs raises
        /\ exc' = "OSError: makedirs"
        /\ pc' = "cleanup"
        /\ UNCHANGED tmpfs
     \/ \* open() or json.dump raises: the file may be there, empty
        /\ exc' = "OSError: config.json"
        /\ pc' = "cleanup"
        /\ \/ tmpfs' = WriteFile(tmpfs, ConfigDir(tmpdir), Dir)
           \/ tmpfs' = WriteFile(WriteFile(tmpfs, ConfigDir(tmpdir), Dir),
                                 ConfigJson(tmpdir), "")
  /\ UNCHANGED <<inputVars, fileVars, credVars, fieldVars, authVars, tmpdir,
                 mkdtempCount, docker_args, childVars, log, exitCode>>

\* variant: the endpoint id of the record is ignored
BaseArgs_EndpointOne(o, config_dir, host, endpoint_id) ==
  << o.docker_cmd,
     "--config", config_dir,
     "--host", "tcp://" \o PyStr(host) \o ":443/api/endpoints/1/docker/",
     "--tls" >>

\* lines 122-127
BaseArgs(o, config_dir, host, endpoint_id) ==
  << o.docker_cmd,
     "--config", config_dir,
     "--host", "tcp://" \o PyStr(host) \o ":443/api/endpoints/" \o PyStr(endpoint_id) \o "/docker/",
     "--tls" >>

\* line 134
TlsVerifyArgs(cacert_path) == <<"--tlsverify", "--tlscacert", cacert_path>>

TlsWarning == "WARNING No CA root certificate supplied. TLS verification is disabled."

\* variant: TLS verification is always switched on
HasCertificate_Always(cert) == TRUE

\* variant: truthiness instead of "is not None"
HasCertificate_Truthy(cert) == cert \notin {None, ""}

\* lines 129-130: is the certificate written and verified against
HasCertificate(cert) == cert # None

\* lines 122-140
BuildArgs ==
  /\ pc = "args"
  /\ IF HasCertificate(portainer_ca_certificate)
       THEN \/ /\ tmpfs' = WriteFile(tmpfs, CacertPath(tmpdir), portainer_ca_certificate)
               /\ docker_args' = BaseArgs(opts, ConfigDir(tmpdir), portainer_host,
                                          portainer_endpoint_id)
                                   \o TlsVerifyArgs(CacertPath(tmpdir))
                                   \o opts.argument
               /\ pc' = "spawn"
               /\ UNCHANGED <<exc, log>>
            \/ \* open() or write() of cacert.pem raises
               /\ exc' = "OSError: cacert.pem"
               /\ pc' = "cleanup"
               /\ \/ tmpfs' = tmpfs
                  \/ tmpfs' = WriteFile(tmpfs, CacertPath(tmpdir), "")
               /\ UNCHANGED <<docker_args, log>>
       ELSE /\ log' = Append(log, TlsWarning)
            /\ docker_args' = BaseArgs(opts, ConfigDir(tmpdir), portainer_host,
                                       portainer_endpoint_id)
                                \o opts.argument
            /\ pc' = "spawn"
            /\ UNCHANGED <<exc, tmpfs>>
  /\ UNCHANGED <<inputVars, fileVars, credVars, fieldVars, authVars, tmpdir,
                 mkdtempCount, childVars, exitCode>>

\* line 142: subprocess.run starts the child
Spawn ==
  /\ pc = "spawn"
  /\ \/ /\ child' = "running"
        /\ spawnCount' = spawnCount + 1
        /\ pc' = "wait"
        /\ UNCHANGED exc
     \/ \* the command cannot be started
        /\ exc' = "FileNotFoundError: docker_cmd"
        /\ pc' = "cleanup"
        /\ UNCHANGED <<child, spawnCount>>
  /\ UNCHANGED <<inputVars, fileVars, credVars, fieldVars, authVars, tmpVars,
                 docker_args, returncode, log, exitCode>>

\* line 142: subprocess.run returns when the child has terminated
ChildExit ==
  /\ pc = "wait"
  /\ child = "running"
  /\ \E rc \in ReturnCodes : returncode' = rc
  /\ child' = "exited"
  /\ pc' = "cleanup"
  /\ UNCHANGED <<inputVars, fileVars, credVars, fieldVars, authVars, tmpVars,
                 docker_args, spawnCount, exc, log, exitCode>>

\* variant: the directory is removed only when the block ends normally
ExitTmpdir_KeepOnException ==
  /\ pc = "cleanup"
  /\ IF exc # None
       THEN /\ SysExit(1)
            /\ UNCHANGED tmpfs
       ELSE /\ tmpfs' = Rmtree(tmpfs, tmpdir)
            /\ pc' = "sysexit"
            /\ UNCHANGED exitCode
  /\ UNCHANGED <<inputVars, fileVars, credVars, fieldVars, authVars, tmpdir,
                 mkdtempCount, docker_args, childVars, exc, log>>

\* leaving the with block of line 115, normally or by an exception
ExitTmpdir ==
  /\ pc = "cleanup"
  /\ tmpfs' = Rmtree(tmpfs, tmpdir)
  /\ IF exc # None
       THEN SysExit(1)
       ELSE /\ pc' = "sysexit"
            /\ UNCHANGED exitCode
  /\ UNCHANGED <<inputVars, fileVars, credVars, fieldVars, authVars, tmpdir,
                 mkdtempCount, docker_args, childVars, exc, log>>

\* variant: only success or failure of the child is passed on
ExitWithReturncode_Boolean ==
  /\ pc = "sysexit"
  /\ SysExit(IF returncode = 0 THEN 0 ELSE 1)
  /\ UNCHANGED <<inputVars, fileVars, credVars, fieldVars, authVars, tmpVars,
                 docker_args, childVars, exc, log>>

\* lines 144-145
ExitWithReturncode ==
  /\ pc = "sysexit"
  /\ SysExit(returncode)
  /\ UNCHANGED <<inputVars, fileVars, credVars, fieldVars, authVars, tmpVars,
                 docker_args, childVars, exc, log>>

Next ==
  \/ ResolveCredentialFiles
  \/ LoadCredentials
  \/ ExtractCredentials
  \/ Login
  \/ EnterTmpdir
  \/ WriteConfig
  \/ BuildArgs
  \/ Spawn
  \/ ChildExit
  \/ ExitTmpdir
  \/ ExitWithReturncode

Spec == Init /\ [][Next]_vars

\* ------------------------------------------------------------ properties
Range(seq) == {seq[i] : i \in 1..Len(seq)}

\* the path is there, whatever it is
Exists(path) == fs[path] # "absent"

OverrideGiven == opts.credentials # None

\* the record selected by the run has no CA certificate
NoCertificate == Get(credentials, "ca_certificate", None) = None

\* docker_args has been assembled
ArgsBuilt == pc \in {"spawn", "wait", "cleanup", "sysexit", "exited"} /\ docker_args # <<>>

\* C1: once main() has created the temporary directory, nothing of it is left
\* when the process has terminated, whether the child ran, a write into the
\* directory failed or the child could not be started.
C1_TmpdirRemovedAtExit ==
  (pc = "exited" /\ mkdtempCount > 0) =>
     /\ tmpdir # None
     /\ DOMAIN tmpfs \cap Under(tmpdir) = {}

C1_Witness ==
  /\ pc = "exited"
  /\ mkdtempCount > 0
  /\ exc = "OSError: config.json"

\* the login request gave no token: a status that is not a success, or a
\* JSON body without a jwt field
NoTokenResponse(r) == ~r.ok \/ (r.is_json /\ "jwt" \notin DOMAIN r.json)

\* C2: when the login response yields no token the run has exited with code 1,
\* no temporary directory was created and no child was spawned.
C2_NoTokenExitsOne ==
  (response # NoResponse /\ NoTokenResponse(response)) =>
     /\ pc = "exited"
     /\ exitCode = 1
     /\ mkdtempCount = 0 /\ tmpfs = <<>>
     /\ spawnCount = 0 /\ child = "none"

C2_Witness ==
  /\ response # NoResponse
  /\ response.status_code = "401"
  /\ pc = "exited"

\* C3 as stated: the exit code of the parent is the return code of the child,
\* for every return code.
C3_ExitCodeIsReturncode ==
  (pc = "exited" /\ child = "exited") => exitCode = returncode

\* C3 amended: the parent exits only after the child; its exit status is the
\* child's exit code when the child exited (0..255), and 256 - N when the child
\* was killed by signal N (return code -N).
C3_ExitStatusOfReturncode ==
  /\ pc = "exited" => child # "running"
  /\ (pc = "exited" /\ child = "exited") =>
        /\ returncode >= 0 => exitCode = returncode
        /\ returncode < 0 => exitCode = 256 + returncode

C3_Witness ==
  /\ pc = "exited"
  /\ child = "exited"
  /\ returncode = 255

\* the search order the claim C4 describes
ClaimedSearchPath ==
  (IF OverrideGiven THEN <<opts.credentials>> ELSE <<>>) \o DefaultPaths

\* the credential file has been chosen, or the search has failed
SearchDone == pc \notin {"start", "load"}

\* C4 as stated: the file used is the first existing path of the override (if
\* given) followed by the three default paths.
C4_FirstExistingOfFour ==
  SearchDone =>
    \A i \in 1..Len(ClaimedSearchPath) :
      (Exists(ClaimedSearchPath[i]) /\ \A j \in 1..(i-1) : ~Exists(ClaimedSearchPath[j]))
        => credentials_file = ClaimedSearchPath[i]

\* C4 amended: with --credentials only that path is considered, and it is used
\* when it is a regular file (otherwise the run fails, whatever default paths
\* exist); without it the file used is the first of the three default paths
\* that is a regular file.
C4_OverrideReplacesDefaults ==
  SearchDone =>
    IF OverrideGiven
      THEN IF fs[opts.credentials] = "file"
             THEN credentials_file = opts.credentials
             ELSE credentials_file = None /\ pc = "exited" /\ exitCode = 1
      ELSE /\ \A i \in 1..3 :
                (fs[DefaultPaths[i]] = "file" /\ \A j \in 1..(i-1) : fs[DefaultPaths[j]] # "file")
                  => credentials_file = DefaultPaths[i]
           /\ (\A i \in 1..3 : fs[DefaultPaths[i]] # "file")
                  => (credentials_file = None /\ pc = "exited" /\ exitCode = 1)

C4_Witness ==
  /\ SearchDone
  /\ OverrideGiven
  /\ fs[opts.credentials] = "absent"
  /\ fs[CwdPath] = "file"
  /\ pc = "exited"

\* the paths the run tries
AttemptedPaths == IF OverrideGiven THEN {opts.credentials} ELSE Range(DefaultPaths)

\* C5: when neither the override (if given) nor any default path exists, the
\* run logs every path it tried, exits with code 1, makes no login request and
\* spawns no child.
C5_NothingFound ==
  (pc # "start" /\ \A i \in 1..Len(ClaimedSearchPath) : ~Exists(ClaimedSearchPath[i])) =>
     /\ pc = "exited"
     /\ exitCode = 1
     /\ \A path \in AttemptedPaths : ("ERROR   - " \o path) \in Range(log)
     /\ loginCount = 0 /\ response = NoResponse
     /\ spawnCount = 0 /\ child = "none"

C5_Witness ==
  /\ pc = "exited"
  /\ ~OverrideGiven
  /\ \A path \in DOMAIN fs : ~Exists(path)
  /\ Len(log) = 4

\* the profile has been looked up
LookupDone ==
  /\ pc \notin {"start", "load"}
  /\ valid_credential_files # <<>>
  /\ exc # "OSError: open credentials"

\* C6: the profile looked up is the --credentials-name flag when given, else
\* PORTAINER_CREDENTIALS_NAME when set, else "default".
C6_ProfileName ==
  LookupDone =>
     /\ opts.credentials_name # None => credentials_name = opts.credentials_name
     /\ (opts.credentials_name = None /\ environ # None) => credentials_name = environ
     /\ (opts.credentials_name = None /\ environ = None) => credentials_name = "default"

C6_Witness ==
  /\ LookupDone
  /\ opts.credentials_name = "prod"
  /\ environ = "stage"
  /\ credentials_name = "prod"
  /\ pc = "login"

TlsFlags == {"--tlsverify", "--tlscacert"}

C7_AddsNoTlsFlag ==
  (ArgsBuilt /\ NoCertificate) =>
     /\ Len(docker_args) = 6 + Len(opts.argument)
     /\ \A i \in 2..6 : docker_args[i] \notin TlsFlags
     /\ \A i \in 1..Len(opts.argument) : docker_args[6 + i] = opts.argument[i]
     /\ CacertPath(tmpdir) \notin DOMAIN tmpfs
     /\ TlsWarning \in Range(log)

\* without a certificate the step that assembles the command goes on to the spawn
C7_StillLaunches ==
  (pc = "args" /\ NoCertificate) => (pc' = "spawn" /\ exc' = None)

C8_CertificateWritten ==
  (child = "running" /\ ~NoCertificate) =>
     \E i \in 1..(Len(docker_args) - 2) :
        /\ docker_args[i] = "--tlsverify"
        /\ docker_args[i + 1] = "--tlscacert"
        /\ docker_args[i + 2] = tmpdir \o "/cacert.pem"
        /\ docker_args[i + 2] \in DOMAIN tmpfs
        /\ tmpfs[docker_args[i + 2]] = credentials["ca_certificate"]

C8_Witness ==
  /\ child = "running"
  /\ ~NoCertificate
  /\ credentials["ca_certificate"] = Pem
  /\ tmpfs[tmpdir \o "/cacert.pem"] = Pem

\* C9: while the child runs its command is c, --config, D, --host,
\* tcp://h:443/api/endpoints/e/docker/, --tls, the TLS-verify flags if there is
\* a certificate, then the passthrough arguments in order; D holds a
\* config.json with the bearer token of the login response.
C9_ChildCommand ==
  child = "running" =>
    LET h == credentials["host"]
        e == IF "endpoint_id" \in DOMAIN credentials
               THEN PyStr(credentials["endpoint_id"]) ELSE "1"
        T == response.json["jwt"]
        D == docker_args[3]
        tls == IF NoCertificate THEN <<>>
               ELSE <<"--tlsverify", "--tlscacert", tmpdir \o "/cacert.pem">>
    IN /\ docker_args = <<opts.docker_cmd, "--config", D, "--host",
                          "tcp://" \o h \o ":443/api/endpoints/" \o e \o "/docker/",
                          "--tls">> \o tls \o opts.argument
       /\ D = tmpdir \o "/config"
       /\ D \in DOMAIN tmpfs /\ tmpfs[D] = Dir
       /\ (D \o "/config.json") \in DOMAIN tmpfs
       /\ tmpfs[D \o "/config.json"]
            = "{\"HttpHeaders\": {\"Authorization\": \"Bearer " \o T \o "\"}}"

C9_Witness ==
  /\ child = "running"
  /\ "endpoint_id" \in DOMAIN credentials
  /\ credentials["endpoint_id"] = "7"
  /\ response.json["jwt"] = "abc123"
  /\ opts.argument = <<"ps", "--tlsverify">>
  /\ tmpfs[tmpdir \o "/config/config.json"]
       = "{\"HttpHeaders\": {\"Authorization\": \"Bearer abc123\"}}"

\* the order of the steps of a run
PcOrder == <<"start", "load", "extract", "login", "mktemp", "config", "args",
             "spawn", "wait", "cleanup", "sysexit", "exited">>
Rank(p) == CHOOSE i \in 1..Len(PcOrder) : PcOrder[i] = p

\* what has happened is consistent with the order of the steps, and a failed
\* step has ended the run with a non-zero status before any later step
C10_Order ==
  /\ loginCount <= 1 /\ mkdtempCount <= 1 /\ spawnCount <= 1
  /\ loginCount = 1 =>
        /\ credentials_file # None /\ fs[credentials_file] = "file"
        /\ credentials_name \in DOMAIN all_credentials
        /\ credentials = all_credentials[credentials_name]
        /\ RequiredFields \subseteq DOMAIN credentials
  /\ mkdtempCount = 1 => (loginCount = 1 /\ token # None)
  /\ spawnCount = 1 => mkdtempCount = 1
  /\ child = "running" => ConfigJson(tmpdir) \in DOMAIN tmpfs
  \* no credential file
  /\ (pc # "start" /\ valid_credential_files = <<>>) =>
        (pc = "exited" /\ exitCode # 0 /\ loginCount = 0 /\ mkdtempCount = 0 /\ spawnCount = 0)
  \* profile missing
  /\ (LookupDone /\ credentials_name \notin DOMAIN all_credentials) =>
        (pc = "exited" /\ exitCode # 0 /\ loginCount = 0 /\ mkdtempCount = 0 /\ spawnCount = 0)
  \* required field missing
  /\ (LookupDone /\ pc # "extract" /\ ~(RequiredFields \subseteq DOMAIN credentials)) =>
        (pc = "exited" /\ exitCode # 0 /\ loginCount = 0 /\ mkdtempCount = 0 /\ spawnCount = 0)
  \* no token
  /\ (loginCount = 1 /\ token = None) =>
        (pc = "exited" /\ exitCode # 0 /\ mkdtempCount = 0 /\ spawnCount = 0)
  \* an exception, the child that cannot be spawned included
  /\ (pc = "exited" /\ exc # None) => exitCode # 0
  /\ exc = "FileNotFoundError: docker_cmd" => (spawnCount = 0 /\ child = "none")

\* every step moves forward, and the child is spawned from a directory that
\* holds config.json
C10_Forward ==
  /\ Rank(pc') > Rank(pc)
  /\ spawnCount' > spawnCount =>
        /\ ConfigJson(tmpdir) \in DOMAIN tmpfs
        /\ tmpfs[ConfigJson(tmpdir)] = ConfigText(token)

\* C10: a run only moves forward through its steps: one login at most and only
\* with the credential file and a complete profile, the temporary directory
\* only with a token, one child at most and only after config.json was written;
\* a failed step performs no later step and ends the run with a non-zero status.
C10_LinearRun == []C10_Order /\ [][C10_Forward]_vars

C10_Witness ==
  /\ pc = "exited"
  /\ exc = "FileNotFoundError: docker_cmd"
  /\ loginCount = 1 /\ mkdtempCount = 1
  /\ exitCode = 1

====
